---- MODULE Spec2Model ----
(***************************************************************************)
(* Model of the navigation / content controller (index.js): manifest       *)
(* loading, navigation rendering, page loading into the iframe, URL and     *)
(* history synchronisation, download; and of the development script         *)
(* (dev.mjs): resource synchronisation and the static file server.          *)
(***************************************************************************)
EXTENDS Integers, Sequences, FiniteSets, TLC

(* ---------------- bounds ---------------- *)

\* longest manifest (number of keys) a manifest fetch may return
MaxKeys == 2
\* page fetches started in one page session
MaxLoads == 3
\* longest manifest handed to renderNav on its own
MaxRenderKeys == 4
\* clicks on the download button in one page session
MaxDownloads == 1

(* ---------------- values ---------------- *)

\* JavaScript null (activeId, e.state, URLSearchParams.get of a missing key)
NoId == "null"
\* the empty string '' of currentHtml / currentTitle, and an empty page body
EmptyStr == <<>>
\* manifest keys; "1" is an integer-like property name
Keys == {"a", "1"}
\* a property every object inherits from Object.prototype
ProtoKeys == {"constructor"}
\* ids that may stand in the query string: manifest keys, which the manifest
\* served may lack, and an inherited property name
UrlIds == Keys \cup ProtoKeys
\* ids handleNavClick is called with: those of navigation elements
ClickIds == Keys
Hostnames == {"localhost", "127.0.0.1", "zhmushan.github.io"}
\* the schemes a page may be served over
Schemes == {"http", "https"}
\* outcomes of a manifest fetch: response.ok and JSON parsed, response not
\* ok, fetch rejected, response.json() rejected
ManifestResults == {"ok", "notOk", "reject", "badJson"}

\* the main content container without an iframe, and a fresh iframe
NoFrame == <<"noframe">>
BlankFrame == <<"blank">>

\* value of an integer-like property name, -1 for any other name
IndexVal(k) == IF k = "1" THEN 1 ELSE IF k = "2" THEN 2 ELSE -1

\* a NavItem of the manifest: relative uri for ordinary keys, absolute for "1"
NavItem(k) ==
  [kind |-> "item", title |-> k,
   uri |-> [scheme |-> IF IndexVal(k) >= 0 THEN "https" ELSE "rel", path |-> k]]

\* the manifests a fetch may deliver: JSON objects as the sequence of their
\* members in document order, keys distinct
RECURSIVE SeqsNoDup(_, _)
SeqsNoDup(S, n) ==
  IF n = 0 THEN {<<>>}
  ELSE LET shorter == SeqsNoDup(S, n - 1)
       IN shorter \cup
          {Append(s, k) : s \in {t \in shorter : Len(t) = n - 1},
                          k \in S}

Manifests ==
  {[i \in DOMAIN s |-> [id |-> s[i], item |-> NavItem(s[i])]] :
     s \in {t \in SeqsNoDup(Keys, MaxKeys) :
              \A i, j \in DOMAIN t : i # j => t[i] # t[j]}}

\* the bodies a page fetch of url may return
Bodies(url) == {EmptyStr, <<"html", url.path>>}

(* ---------------- pure functions ---------------- *)

Undefined == [kind |-> "undefined", title |-> "", uri |-> [scheme |-> "", path |-> ""]]
\* Object.prototype.constructor: a truthy value that has no uri property
ProtoValue == [kind |-> "proto", title |-> "", uri |-> [scheme |-> "", path |-> ""]]

OwnKeys(nd) == {nd[i].id : i \in DOMAIN nd}

\* navData[id]: own property, else the prototype chain, else undefined
Lookup(nd, id) ==
  IF id \in OwnKeys(nd)
  THEN (CHOOSE e \in {nd[i] : i \in DOMAIN nd} : e.id = id).item
  ELSE IF id \in ProtoKeys THEN ProtoValue ELSE Undefined

Truthy(v) == v.kind # "undefined"

RECURSIVE SortIdx(_)
SortIdx(S) ==
  IF S = {} THEN <<>>
  ELSE LET m == CHOOSE x \in S : \A y \in S : IndexVal(x) <= IndexVal(y)
       IN <<m>> \o SortIdx(S \ {m})

IsIndexEntry(e) == IndexVal(e.id) >= 0
IsNameEntry(e) == IndexVal(e.id) < 0

\* Object.keys / Object.entries order: integer-like names ascending, then
\* the other names in insertion order
ObjectKeys(nd) ==
  LET names == SelectSeq(nd, IsNameEntry)
  IN SortIdx({e.id : e \in {x \in {nd[j] : j \in DOMAIN nd} : IsIndexEntry(x)}})
     \o [i \in DOMAIN names |-> names[i].id]

\* variant: only the name localhost is recognised as local
isDev_localhostOnly(h) == h = "localhost"

isDev(h) == h = "localhost" \/ h = "127.0.0.1"


\* the derived file name `${id}.html`
TitleOf(id) == <<id, ".html">>

\* the inline error document, msg is the error's message
ErrorDoc(msg) == <<"loadFailed", msg>>

\* renderNav: container cleared, one element per entry of Object.entries
renderNav(nd) ==
  LET ks == ObjectKeys(nd)
  IN [i \in DOMAIN ks |-> [id |-> ks[i], active |-> FALSE]]

\* variant: the marker is added to the new element but never removed
updateNavActiveState_addOnly(els, id) ==
  [i \in DOMAIN els |-> [id |-> els[i].id,
                         active |-> (els[i].active \/ els[i].id = id)]]

\* updateNavActiveState: marker (class and aria-current) on the elements
\* whose data-id is id, removed from all others
updateNavActiveState(els, id) ==
  [i \in DOMAIN els |-> [id |-> els[i].id, active |-> (els[i].id = id)]]

\* history.pushState: entries after the current one are dropped
pushState(h, idx, id) == Append(SubSeq(h, 1, idx), [state |-> id, url |-> id])

(* ---------------- state ---------------- *)

VARIABLES
  hostname,      \* location.hostname
  protocol,      \* the scheme of window.location.href
  pc,            \* position of init: "start", "awaitLocal", "awaitRemote", "done"
  manifestLog,   \* manifest fetches made, in order: [src, res]
  navData,       \* state.navData
  navEls,        \* the elements of the navigation container, in order
  listening,     \* the popstate listener is registered
  activeId,      \* state.activeId
  currentHtml,   \* state.currentHtml
  currentTitle,  \* state.currentTitle
  srcdoc,        \* the content iframe's srcdoc (NoFrame: no iframe yet)
  history,       \* session history entries of this document: [state, url]
  hidx,          \* index of the current history entry
  inflight,      \* page fetches awaiting their response
  nfetch,        \* page fetches started so far
  lastOp,        \* the handler that ran last: [op, id, origin, threw]
  downloads,     \* the runs of handleDownload, in the order of the clicks
  args,          \* dev.mjs: process.argv.slice(2)
  sysenv,        \* dev.mjs: can a shell be spawned, is file_server installed
  spc,           \* dev.mjs: position of main
  disk,          \* dev.mjs: nav_data.json and the pages directory
  syncData,      \* dev.mjs: navData of syncResources
  si,            \* dev.mjs: entries of the page loop already finished
  sFetches,      \* dev.mjs: fetches awaiting their response
  fetchLog,      \* dev.mjs: fetches started, in order
  server,        \* dev.mjs: the spawned server process
  logs,          \* dev.mjs: messages written by log
  exitCode       \* dev.mjs: exit code of the script, NoExit while it runs

\* the variables of dev.mjs
scriptVars == <<args, sysenv, spc, disk, syncData, si, sFetches, fetchLog,
               server, logs, exitCode>>

\* the variables of index.js
pageVars == <<hostname, protocol, pc, manifestLog, navData, navEls, listening, activeId,
              currentHtml, currentTitle, srcdoc, history, hidx, inflight,
              nfetch, lastOp, downloads>>

vars == <<pageVars, scriptVars>>

\* location.search's id
getIdFromUrl == history[hidx].url

\* resolveUri: an absolute http(s) uri as it is; any other uri is resolved
\* against window.location.href: a relative one takes the scheme of the
\* page, an absolute one of another scheme keeps its own
resolveUri(uri) ==
  IF uri.scheme = "http" \/ uri.scheme = "https" THEN uri
  ELSE IF uri.scheme = "rel" THEN [scheme |-> protocol, path |-> uri.path]
  ELSE uri

Op(op, id, origin, threw) == [op |-> op, id |-> id, origin |-> origin, threw |-> threw]


\* the script has not exited
NoExit == -1
\* exit code null of a child that was ended by a signal, and no exit yet;
\* both stand apart from every exit status and every errno
NullCode == -1000
NoCode == -1001
\* the codes a child that could not be spawned closes with: the negated
\* errno of the failed spawn of the shell
EACCES == -13
ENOENT == -2
SpawnErrnos == {EACCES, ENOENT}
\* exit status of a shell whose command was not found
NotFoundCode == 127
\* no file at nav_data.json
NoFile == <<"nofile">>

\* the script is not run in this page session
ScriptOff ==
  /\ args = {}
  /\ sysenv = [shell |-> TRUE, binary |-> TRUE,
               disk0 |-> [navData |-> NoFile, dir |-> FALSE, files |-> {}]]
  /\ spc = "off"
  /\ disk = [navData |-> NoFile, dir |-> FALSE, files |-> {}]
  /\ syncData = <<>>
  /\ si = 0
  /\ sFetches = {}
  /\ fetchLog = <<>>
  /\ server = [st |-> "none", code |-> NoCode, sigint |-> FALSE]
  /\ logs = {}
  /\ exitCode = NoExit

Init ==
  /\ hostname \in Hostnames
  /\ protocol \in Schemes
  /\ pc = "start"
  /\ manifestLog = <<>>
  /\ navData = <<>>
  /\ navEls = <<>>
  /\ listening = FALSE
  /\ activeId = NoId
  /\ currentHtml = EmptyStr
  /\ currentTitle = EmptyStr
  /\ srcdoc = NoFrame
  /\ \E u \in UrlIds \cup {NoId} : history = <<[state |-> NoId, url |-> u]>>
  /\ hidx = 1
  /\ inflight = {}
  /\ nfetch = 0
  /\ lastOp = Op("none", NoId, "none", FALSE)
  /\ downloads = <<>>
  /\ ScriptOff

(* ---------------- loadContentById ---------------- *)

\* loadContentById rejects: the item is truthy but has no uri, so
\* resolveUri calls startsWith on undefined
LoadThrows(nd, id) == Lookup(nd, id).kind = "proto"

\* variant: the missing-item check is absent and the uri is derived from id
LoadBegin_noGuard(nd, id, origin) ==
  /\ nfetch < MaxLoads
  /\ srcdoc' = IF srcdoc = NoFrame THEN BlankFrame ELSE srcdoc
  /\ nfetch' = nfetch + 1
  /\ inflight' = inflight \cup
        {[n |-> nfetch + 1, id |-> id, url |-> resolveUri(NavItem(id).uri),
          origin |-> origin]}

\* loadContentById up to its await of fetch
LoadBegin(nd, id, origin) ==
  LET item == Lookup(nd, id)
  IN IF item.kind # "item"
     THEN UNCHANGED <<srcdoc, inflight, nfetch>>
     ELSE /\ nfetch < MaxLoads
          /\ srcdoc' = IF srcdoc = NoFrame THEN BlankFrame ELSE srcdoc
          /\ nfetch' = nfetch + 1
          /\ inflight' = inflight \cup
                {[n |-> nfetch + 1, id |-> id, url |-> resolveUri(item.uri),
                  origin |-> origin]}

\* loadContentById after its try/catch: state, highlighting, URL
LoadEnd(f) ==
  /\ activeId' = f.id
  /\ navEls' = updateNavActiveState(navEls, f.id)
  /\ history' = pushState(history, hidx, f.id)
  /\ hidx' = hidx + 1
  /\ inflight' = inflight \ {f}

\* variant: the response of a fetch that is no longer the latest one started
\* is dropped
FetchOk_latestOnly(f, html) ==
  /\ f \in inflight
  /\ html \in Bodies(f.url)
  /\ IF f.n = nfetch
     THEN /\ srcdoc' = html
          /\ currentHtml' = html
          /\ currentTitle' = TitleOf(f.id)
          /\ LoadEnd(f)
     ELSE /\ inflight' = inflight \ {f}
          /\ UNCHANGED <<srcdoc, currentHtml, currentTitle, activeId, navEls,
                         history, hidx>>
  /\ lastOp' = Op("fetchOk", f.id, f.origin, FALSE)
  /\ UNCHANGED <<scriptVars, downloads, hostname, protocol, pc, manifestLog, navData, listening, nfetch>>

\* variant: the download title is built from the key that was active when
\* the response arrived
FetchOk_staleTitle(f, html) ==
  /\ f \in inflight
  /\ html \in Bodies(f.url)
  /\ srcdoc' = html
  /\ currentHtml' = html
  /\ currentTitle' = TitleOf(activeId)
  /\ LoadEnd(f)
  /\ lastOp' = Op("fetchOk", f.id, f.origin, FALSE)
  /\ UNCHANGED <<scriptVars, downloads, hostname, protocol, pc, manifestLog, navData, listening, nfetch>>

\* the page fetch resolved with an ok response
FetchOk(f, html) ==
  /\ f \in inflight
  /\ html \in Bodies(f.url)
  /\ srcdoc' = html
  /\ currentHtml' = html
  /\ currentTitle' = TitleOf(f.id)
  /\ LoadEnd(f)
  /\ lastOp' = Op("fetchOk", f.id, f.origin, FALSE)
  /\ UNCHANGED <<scriptVars, downloads, hostname, protocol, pc, manifestLog, navData, listening, nfetch>>

\* variant: the cached page survives a failed load
FetchFail_keepCache(f, msg) ==
  /\ f \in inflight
  /\ msg \in {"HTTP", "network"}
  /\ srcdoc' = ErrorDoc(msg)
  /\ UNCHANGED <<currentHtml, currentTitle>>
  /\ LoadEnd(f)
  /\ lastOp' = Op("fetchFail", f.id, f.origin, FALSE)
  /\ UNCHANGED <<scriptVars, downloads, hostname, protocol, pc, manifestLog, navData, listening, nfetch>>

\* the page fetch rejected ("network") or resolved not ok ("HTTP")
FetchFail(f, msg) ==
  /\ f \in inflight
  /\ msg \in {"HTTP", "network"}
  /\ srcdoc' = ErrorDoc(msg)
  /\ currentHtml' = EmptyStr
  /\ currentTitle' = EmptyStr
  /\ LoadEnd(f)
  /\ lastOp' = Op("fetchFail", f.id, f.origin, FALSE)
  /\ UNCHANGED <<scriptVars, downloads, hostname, protocol, pc, manifestLog, navData, listening, nfetch>>

(* ---------------- handlers ---------------- *)

\* variant: no comparison with the active key
handleNavClick_noGuard(id) ==
  /\ pc = "done"
  /\ id \in ClickIds
  /\ LoadBegin(navData, id, "click")
  /\ lastOp' = Op("click", id, "click", LoadThrows(navData, id))
  /\ UNCHANGED <<scriptVars, downloads, hostname, protocol, pc, manifestLog, navData, navEls, listening,
                 activeId, currentHtml, currentTitle, history, hidx>>

\* handleNavClick(id): click or Enter/Space on the element of id, or the
\* selection routine invoked with any other id
handleNavClick(id) ==
  /\ pc = "done"
  /\ id \in ClickIds
  /\ IF id = activeId
     THEN UNCHANGED <<srcdoc, inflight, nfetch>>
     ELSE LoadBegin(navData, id, "click")
  /\ lastOp' = Op("click", id, "click", id # activeId /\ LoadThrows(navData, id))
  /\ UNCHANGED <<scriptVars, downloads, hostname, protocol, pc, manifestLog, navData, navEls, listening,
                 activeId, currentHtml, currentTitle, history, hidx>>

\* browser back (d = -1) or forward (d = 1) within this document, and the
\* popstate listener
popstate(d) ==
  /\ listening
  /\ d \in {-1, 1}
  /\ hidx + d \in DOMAIN history
  /\ hidx' = hidx + d
  /\ LET e == history[hidx + d]
         id == IF e.state # NoId THEN e.state ELSE e.url
         origin == IF d = 1 THEN "forward" ELSE "back"
         loads == id # NoId /\ Truthy(Lookup(navData, id))
     IN /\ IF loads
           THEN LoadBegin(navData, id, origin)
           ELSE UNCHANGED <<srcdoc, inflight, nfetch>>
        /\ lastOp' = Op(origin, id, origin, loads /\ LoadThrows(navData, id))
  /\ UNCHANGED <<scriptVars, downloads, hostname, protocol, pc, manifestLog, navData, navEls, listening,
                 activeId, currentHtml, currentTitle, history>>

(* ---------------- init and loadNavData ---------------- *)

\* init calls loadNavData, which starts its first manifest fetch
InitStart ==
  /\ pc = "start"
  /\ IF isDev(hostname)
     THEN /\ manifestLog' = <<[src |-> "local", res |-> "pending"]>>
          /\ pc' = "awaitLocal"
     ELSE /\ manifestLog' = <<[src |-> "remote", res |-> "pending"]>>
          /\ pc' = "awaitRemote"
  /\ lastOp' = Op("initStart", NoId, "init", FALSE)
  /\ UNCHANGED <<scriptVars, downloads, hostname, protocol, navData, navEls, listening, activeId, currentHtml,
                 currentTitle, srcdoc, history, hidx, inflight, nfetch>>

Settle(log, res) == [log EXCEPT ![Len(log)].res = res]

\* init after loadNavData returned nd
InitContinue(nd) ==
  LET ids == ObjectKeys(nd)
      urlId == getIdFromUrl
      initialId == IF urlId # NoId /\ Truthy(Lookup(nd, urlId))
                   THEN urlId ELSE ids[1]
  IN /\ navData' = nd
     /\ navEls' = renderNav(nd)
     /\ pc' = "done"
     /\ IF Len(ids) = 0
        THEN /\ UNCHANGED <<srcdoc, inflight, nfetch, listening>>
             /\ lastOp' = Op("init", NoId, "init", FALSE)
        ELSE /\ LoadBegin(nd, initialId, "init")
             /\ listening' = TRUE
             /\ lastOp' = Op("init", initialId, "init", LoadThrows(nd, initialId))
     /\ UNCHANGED <<scriptVars, downloads, hostname, protocol, activeId, currentHtml, currentTitle, history, hidx>>

\* the local manifest fetch settled
LocalDone(res, nd) ==
  /\ pc = "awaitLocal"
  /\ res \in ManifestResults
  /\ nd \in Manifests
  /\ IF res = "ok"
     THEN /\ manifestLog' = Settle(manifestLog, res)
          /\ InitContinue(nd)
     ELSE /\ manifestLog' = Append(Settle(manifestLog, res),
                                   [src |-> "remote", res |-> "pending"])
          /\ pc' = "awaitRemote"
          /\ lastOp' = Op("localFailed", NoId, "init", FALSE)
          /\ UNCHANGED <<scriptVars, downloads, hostname, protocol, navData, navEls, listening, activeId,
                         currentHtml, currentTitle, srcdoc, history, hidx,
                         inflight, nfetch>>

\* variant: response.ok is not checked, a not-ok response's JSON is used
RemoteDone_noOkCheck(res, nd) ==
  /\ pc = "awaitRemote"
  /\ res \in ManifestResults
  /\ nd \in Manifests
  /\ manifestLog' = Settle(manifestLog, res)
  /\ InitContinue(IF res \in {"ok", "notOk"} THEN nd ELSE <<>>)

\* the remote manifest fetch settled
RemoteDone(res, nd) ==
  /\ pc = "awaitRemote"
  /\ res \in ManifestResults
  /\ nd \in Manifests
  /\ manifestLog' = Settle(manifestLog, res)
  /\ InitContinue(IF res = "ok" THEN nd ELSE <<>>)

(* ---------------- handleDownload ---------------- *)

\* the awaits of handleDownload, in order
SavePositions == <<"showSaveFilePicker", "createWritable", "write", "close">>
\* how an awaited promise settles: resolved, rejected with an AbortError (the
\* user cancelled), rejected with any other error
SaveOutcomes == {"ok", "AbortError", "error"}

\* the position after position at, "done" after the last
NextPosition(at) ==
  LET i == CHOOSE j \in DOMAIN SavePositions : SavePositions[j] = at
  IN IF i < Len(SavePositions) THEN SavePositions[i + 1] ELSE "done"

\* a run of handleDownload: what it showed, the blob and file name it fixed
\* at the click, how it ended, whether console.error was called, and the
\* await it stands at ("done": it returned)
AlertRun == [shown |-> "alert", content |-> EmptyStr, name |-> EmptyStr,
             result |-> "none", logged |-> FALSE, at |-> "done"]
SaveRun(picker, html, title) ==
  [shown |-> IF picker THEN "picker" ELSE "anchor",
   content |-> html,
   name |-> IF title # EmptyStr THEN title ELSE <<"page.html">>,
   result |-> IF picker THEN "pending" ELSE "anchor",
   logged |-> FALSE,
   at |-> IF picker THEN SavePositions[1] ELSE "done"]

\* variant: no check for an empty cache
handleDownload_noCheck(picker) ==
  /\ listening
  /\ Len(downloads) < MaxDownloads
  /\ picker \in BOOLEAN
  /\ downloads' = Append(downloads, SaveRun(picker, currentHtml, currentTitle))
  /\ lastOp' = Op("download", NoId, "download", FALSE)
  /\ UNCHANGED <<scriptVars, hostname, protocol, pc, manifestLog, navData, navEls,
                 listening, activeId, currentHtml, currentTitle, srcdoc,
                 history, hidx, inflight, nfetch>>

\* handleDownload up to its first await: click on the download button;
\* picker: the platform has showSaveFilePicker
handleDownload(picker) ==
  /\ listening
  /\ Len(downloads) < MaxDownloads
  /\ picker \in BOOLEAN
  /\ downloads' = Append(downloads,
                         IF currentHtml = EmptyStr THEN AlertRun
                         ELSE SaveRun(picker, currentHtml, currentTitle))
  /\ lastOp' = Op("download", NoId, "download", FALSE)
  /\ UNCHANGED <<scriptVars, hostname, protocol, pc, manifestLog, navData, navEls,
                 listening, activeId, currentHtml, currentTitle, srcdoc,
                 history, hidx, inflight, nfetch>>

\* handleDownload resumed: the promise run i awaits settles with out; a
\* rejection ends the run in the catch, which reports all but AbortError
SaveStep(i, out) ==
  /\ i \in DOMAIN downloads
  /\ downloads[i].at # "done"
  /\ out \in SaveOutcomes
  /\ downloads' =
       [downloads EXCEPT ![i] =
          IF out = "ok"
          THEN [@ EXCEPT !.at = NextPosition(downloads[i].at),
                         !.result = IF NextPosition(downloads[i].at) = "done"
                                    THEN "saved" ELSE "pending"]
          ELSE [@ EXCEPT !.at = "done",
                         !.result = IF out = "AbortError" THEN "aborted"
                                    ELSE "failed",
                         !.logged = (out # "AbortError")]]
  /\ lastOp' = Op("download", NoId, "download", FALSE)
  /\ UNCHANGED <<scriptVars, hostname, protocol, pc, manifestLog, navData, navEls,
                 listening, activeId, currentHtml, currentTitle, srcdoc,
                 history, hidx, inflight, nfetch>>

Next ==
  \/ InitStart
  \/ \E res \in ManifestResults, nd \in Manifests : LocalDone(res, nd)
  \/ \E res \in ManifestResults, nd \in Manifests : RemoteDone(res, nd)
  \/ \E id \in ClickIds : handleNavClick(id)
  \/ \E d \in {-1, 1} : popstate(d)
  \/ \E f \in inflight : \E html \in Bodies(f.url) : FetchOk(f, html)
  \/ \E f \in inflight : \E msg \in {"HTTP", "network"} : FetchFail(f, msg)
  \/ \E picker \in BOOLEAN : handleDownload(picker)
  \/ \E i \in DOMAIN downloads : \E out \in SaveOutcomes : SaveStep(i, out)

Spec == Init /\ [][Next]_vars

\* the page opened on the production host
ProdInit == Init /\ hostname = "zhmushan.github.io"

ProdNext ==
  \/ InitStart
  \/ \E res \in ManifestResults, nd \in Manifests : RemoteDone(res, nd)
  \/ \E id \in ClickIds : handleNavClick(id)
  \/ \E d \in {-1, 1} : popstate(d)
  \/ \E f \in inflight : \E html \in Bodies(f.url) : FetchOk(f, html)
  \/ \E f \in inflight : \E msg \in {"HTTP", "network"} : FetchFail(f, msg)
  \/ \E picker \in BOOLEAN : handleDownload(picker)
  \/ \E i \in DOMAIN downloads : \E out \in SaveOutcomes : SaveStep(i, out)

ProdSpec == ProdInit /\ [][ProdNext]_vars

(* ---------------- renderNav on its own ---------------- *)

\* keys of the manifests rendered: two ordinary and two integer-like names
RenderKeys == {"a", "b", "1", "2"}

RenderManifests ==
  {[i \in DOMAIN s |-> [id |-> s[i], item |-> NavItem(s[i])]] :
     s \in {t \in SeqsNoDup(RenderKeys, MaxRenderKeys) :
              \A i, j \in DOMAIN t : i # j => t[i] # t[j]}}

\* the page with a navigation container that holds earlier content
RenderInit ==
  /\ hostname = "zhmushan.github.io"
  /\ protocol = "https"
  /\ pc = "render"
  /\ manifestLog = <<>>
  /\ navData = <<>>
  /\ \E m \in RenderManifests, k \in RenderKeys \cup {NoId} :
        navEls = updateNavActiveState(renderNav(m), k)
  /\ listening = FALSE
  /\ activeId = NoId
  /\ currentHtml = EmptyStr
  /\ currentTitle = EmptyStr
  /\ srcdoc = NoFrame
  /\ history = <<[state |-> NoId, url |-> NoId]>>
  /\ hidx = 1
  /\ inflight = {}
  /\ nfetch = 0
  /\ lastOp = Op("none", NoId, "none", FALSE)
  /\ downloads = <<>>
  /\ ScriptOff

\* state.navData = navData; renderNav(navData)
RenderNav(nd) ==
  /\ pc = "render"
  /\ nd \in RenderManifests
  /\ navData' = nd
  /\ navEls' = renderNav(nd)
  /\ lastOp' = Op("render", NoId, "init", FALSE)
  /\ UNCHANGED <<scriptVars, downloads, hostname, protocol, pc, manifestLog, listening,
                 activeId, currentHtml, currentTitle, srcdoc, history, hidx,
                 inflight, nfetch>>

RenderNext == \E nd \in RenderManifests : RenderNav(nd)

RenderSpec == RenderInit /\ [][RenderNext]_vars

(* ---------------- dev.mjs ---------------- *)

\* the argument lists the script is started with
ArgLists ==
  {{}, {"--sync"}, {"--serve"}, {"--sync", "--serve"}, {"--sync-only"},
   {"--serve-only"}, {"--verbose"}}

\* exit codes of a file server that ran
ServerCodes == {0, 1, 2}

\* nav_data.json and the pages directory before the run
InitialDisks ==
  {[navData |-> n, dir |-> d.dir, files |-> d.files] :
     n \in {NoFile, <<"old">>},
     d \in {[dir |-> FALSE, files |-> {}],
            [dir |-> TRUE, files |-> {}],
            [dir |-> TRUE, files |-> {<<TitleOf("a"), <<"stale">>>>,
                                      <<TitleOf("old"), <<"stale">>>>}]}}

\* the manifests the remote host may serve: every uri absolute or relative
SyncManifests ==
  UNION {{[i \in DOMAIN m |->
             [id |-> m[i].id,
              item |-> [kind |-> "item", title |-> m[i].id,
                        uri |-> [scheme |-> sch[i], path |-> m[i].id]]]] :
            sch \in [DOMAIN m -> {"https", "rel"}]} : m \in Manifests}

\* the text of a manifest, and a response body that is not JSON
JsonText(nd) == <<"json", nd>>
Garbage == <<"garbage">>

\* variant: the flag is recognised in its long form only
syncOnly_longForm(a) == "--sync-only" \in a

\* args.includes('--sync'), args.includes('--serve')
syncOnly(a) == "--sync" \in a
serveOnly(a) == "--serve" \in a

\* `${key}.html` in the pages directory
FileName(key) == <<key, ".html">>

\* Object.entries(navData) of the page loop
SyncEntries(nd) ==
  LET ks == ObjectKeys(nd)
  IN [i \in DOMAIN ks |-> [id |-> ks[i], item |-> Lookup(nd, ks[i])]]

PageFetch(e) == [kind |-> "page", key |-> e.id, uri |-> e.item.uri]
ManifestFetch == [kind |-> "manifest", key |-> "nav_data.json",
                  uri |-> [scheme |-> "https", path |-> "nav_data.json"]]

Started(f) == [kind |-> f.kind, key |-> f.key, res |-> "pending",
               body |-> EmptyStr]

\* the fetch log with its pending fetch of key settled
SettleFetch(log, key, res, body) ==
  [i \in DOMAIN log |->
     IF log[i].key = key /\ log[i].res = "pending"
     THEN [log[i] EXCEPT !.res = res, !.body = body] ELSE log[i]]

SyncInit ==
  /\ hostname = "localhost"
  /\ protocol = "http"
  /\ pc = "start"
  /\ manifestLog = <<>>
  /\ navData = <<>>
  /\ navEls = <<>>
  /\ listening = FALSE
  /\ activeId = NoId
  /\ currentHtml = EmptyStr
  /\ currentTitle = EmptyStr
  /\ srcdoc = NoFrame
  /\ history = <<[state |-> NoId, url |-> NoId]>>
  /\ hidx = 1
  /\ inflight = {}
  /\ nfetch = 0
  /\ lastOp = Op("none", NoId, "none", FALSE)
  /\ downloads = <<>>
  /\ args \in ArgLists
  /\ disk \in InitialDisks
  /\ \E sh \in BOOLEAN, bin \in BOOLEAN :
       sysenv = [shell |-> sh, binary |-> bin, disk0 |-> disk]
  /\ spc = "start"
  /\ syncData = <<>>
  /\ si = 0
  /\ sFetches = {}
  /\ fetchLog = <<>>
  /\ server = [st |-> "none", code |-> NoCode, sigint |-> FALSE]
  /\ logs = {}
  /\ exitCode = NoExit

\* main's catch: log the failure, process.exit(1)
Fatal ==
  /\ logs' = logs \cup {"execFailed"}
  /\ spc' = "exited"
  /\ exitCode' = 1

\* startServer: spawn('file_server', ['.'], {shell: true}); without a shell
\* the child cannot be spawned and will emit 'error'
StartServer ==
  /\ spc' = "serve"
  /\ server' = [st |-> IF sysenv.shell THEN "running" ELSE "failed",
                code |-> NoCode, sigint |-> FALSE]
  /\ exitCode' = exitCode

\* main after the sync step: the server step, or the end of main
AfterSync ==
  IF syncOnly(args)
  THEN spc' = "exited" /\ exitCode' = 0 /\ server' = server
  ELSE StartServer

\* main up to its first await
MainStart ==
  /\ spc = "start"
  /\ IF ~serveOnly(args)
     THEN /\ spc' = "manifest"
          /\ sFetches' = {ManifestFetch}
          /\ fetchLog' = Append(fetchLog, Started(ManifestFetch))
          /\ UNCHANGED <<server, exitCode>>
     ELSE /\ AfterSync
          /\ UNCHANGED <<sFetches, fetchLog>>
  /\ UNCHANGED <<pageVars, args, sysenv, disk, syncData, si, logs>>

\* variant: the pages directory is created if missing but never removed
ManifestDone_keepDir(res, nd) ==
  /\ spc = "manifest"
  /\ res \in ManifestResults
  /\ nd \in SyncManifests
  /\ IF res \in {"notOk", "reject"}
     THEN /\ Fatal
          /\ sFetches' = {}
          /\ fetchLog' = SettleFetch(fetchLog, ManifestFetch.key, res, EmptyStr)
          /\ UNCHANGED <<disk, syncData, si, server>>
     ELSE IF res = "badJson"
     THEN /\ disk' = [disk EXCEPT !.navData = Garbage]
          /\ Fatal
          /\ sFetches' = {}
          /\ fetchLog' = SettleFetch(fetchLog, ManifestFetch.key, res, EmptyStr)
          /\ UNCHANGED <<syncData, si, server>>
     ELSE /\ disk' = [navData |-> JsonText(nd), dir |-> TRUE, files |-> disk.files]
          /\ syncData' = nd
          /\ si' = 0
          /\ logs' = logs
          /\ IF Len(SyncEntries(nd)) >= 1
             THEN /\ spc' = "page"
                  /\ sFetches' = {PageFetch(SyncEntries(nd)[1])}
                  /\ fetchLog' = Append(SettleFetch(fetchLog, ManifestFetch.key, res, EmptyStr),
                                        Started(PageFetch(SyncEntries(nd)[1])))
                  /\ UNCHANGED <<server, exitCode>>
             ELSE /\ sFetches' = {}
                  /\ fetchLog' = SettleFetch(fetchLog, ManifestFetch.key, res, EmptyStr)
                  /\ AfterSync
  /\ UNCHANGED <<pageVars, args, sysenv>>

\* variant: a failed manifest fetch is logged and the run goes on to the
\* server step
ManifestDone_swallowFailure(res, nd) ==
  /\ spc = "manifest"
  /\ res \in ManifestResults
  /\ nd \in SyncManifests
  /\ IF res \in {"notOk", "reject"}
     THEN /\ logs' = logs \cup {"execFailed"}
          /\ AfterSync
          /\ sFetches' = {}
          /\ fetchLog' = SettleFetch(fetchLog, ManifestFetch.key, res, EmptyStr)
          /\ UNCHANGED <<disk, syncData, si>>
     ELSE IF res = "badJson"
     THEN /\ disk' = [disk EXCEPT !.navData = Garbage]
          /\ Fatal
          /\ sFetches' = {}
          /\ fetchLog' = SettleFetch(fetchLog, ManifestFetch.key, res, EmptyStr)
          /\ UNCHANGED <<syncData, si, server>>
     ELSE /\ disk' = [navData |-> JsonText(nd), dir |-> TRUE, files |-> {}]
          /\ syncData' = nd
          /\ si' = 0
          /\ logs' = logs
          /\ IF Len(SyncEntries(nd)) >= 1
             THEN /\ spc' = "page"
                  /\ sFetches' = {PageFetch(SyncEntries(nd)[1])}
                  /\ fetchLog' = Append(SettleFetch(fetchLog, ManifestFetch.key, res, EmptyStr),
                                        Started(PageFetch(SyncEntries(nd)[1])))
                  /\ UNCHANGED <<server, exitCode>>
             ELSE /\ sFetches' = {}
                  /\ fetchLog' = SettleFetch(fetchLog, ManifestFetch.key, res, EmptyStr)
                  /\ AfterSync
  /\ UNCHANGED <<pageVars, args, sysenv>>

\* variant: fetchText does not test response.ok, so the body of an error
\* response is written to nav_data.json before the parse fails
ManifestDone_noOkCheck(res, nd) ==
  /\ spc = "manifest"
  /\ res \in ManifestResults
  /\ nd \in SyncManifests
  /\ IF res = "reject"
     THEN /\ Fatal
          /\ sFetches' = {}
          /\ fetchLog' = SettleFetch(fetchLog, ManifestFetch.key, res, EmptyStr)
          /\ UNCHANGED <<disk, syncData, si, server>>
     ELSE IF res \in {"badJson", "notOk"}
     THEN /\ disk' = [disk EXCEPT !.navData = Garbage]
          /\ Fatal
          /\ sFetches' = {}
          /\ fetchLog' = SettleFetch(fetchLog, ManifestFetch.key, res, EmptyStr)
          /\ UNCHANGED <<syncData, si, server>>
     ELSE /\ disk' = [navData |-> JsonText(nd), dir |-> TRUE, files |-> {}]
          /\ syncData' = nd
          /\ si' = 0
          /\ logs' = logs
          /\ IF Len(SyncEntries(nd)) >= 1
             THEN /\ spc' = "page"
                  /\ sFetches' = {PageFetch(SyncEntries(nd)[1])}
                  /\ fetchLog' = Append(SettleFetch(fetchLog, ManifestFetch.key, res, EmptyStr),
                                        Started(PageFetch(SyncEntries(nd)[1])))
                  /\ UNCHANGED <<server, exitCode>>
             ELSE /\ sFetches' = {}
                  /\ fetchLog' = SettleFetch(fetchLog, ManifestFetch.key, res, EmptyStr)
                  /\ AfterSync
  /\ UNCHANGED <<pageVars, args, sysenv>>

\* syncResources after fetchText(NAV_DATA_URL) settled
ManifestDone(res, nd) ==
  /\ spc = "manifest"
  /\ res \in ManifestResults
  /\ nd \in SyncManifests
  /\ IF res \in {"notOk", "reject"}
     THEN /\ Fatal
          /\ sFetches' = {}
          /\ fetchLog' = SettleFetch(fetchLog, ManifestFetch.key, res, EmptyStr)
          /\ UNCHANGED <<disk, syncData, si, server>>
     ELSE IF res = "badJson"
     THEN /\ disk' = [disk EXCEPT !.navData = Garbage]
          /\ Fatal
          /\ sFetches' = {}
          /\ fetchLog' = SettleFetch(fetchLog, ManifestFetch.key, res, EmptyStr)
          /\ UNCHANGED <<syncData, si, server>>
     ELSE /\ disk' = [navData |-> JsonText(nd), dir |-> TRUE, files |-> {}]
          /\ syncData' = nd
          /\ si' = 0
          /\ logs' = logs
          /\ IF Len(SyncEntries(nd)) >= 1
             THEN /\ spc' = "page"
                  /\ sFetches' = {PageFetch(SyncEntries(nd)[1])}
                  /\ fetchLog' = Append(SettleFetch(fetchLog, ManifestFetch.key, res, EmptyStr),
                                        Started(PageFetch(SyncEntries(nd)[1])))
                  /\ UNCHANGED <<server, exitCode>>
             ELSE /\ sFetches' = {}
                  /\ fetchLog' = SettleFetch(fetchLog, ManifestFetch.key, res, EmptyStr)
                  /\ AfterSync
  /\ UNCHANGED <<pageVars, args, sysenv>>

\* the results a page fetch of uri can have: a relative uri is no URL for
\* fetch, which rejects
PageResults(uri) ==
  IF uri.scheme \in {"http", "https"} THEN {"ok", "notOk", "reject"}
  ELSE {"reject"}

\* one iteration of the page loop after fetchText(item.uri) settled
PageDone(f, res, body) ==
  /\ spc = "page"
  /\ f \in sFetches
  /\ f.kind = "page"
  /\ res \in PageResults(f.uri)
  /\ body \in Bodies(f.uri)
  /\ IF res = "ok"
     THEN /\ disk' = [disk EXCEPT !.files =
                        {x \in disk.files : x[1] # FileName(f.key)}
                        \cup {<<FileName(f.key), body>>}]
          /\ logs' = logs
     ELSE /\ disk' = disk
          /\ logs' = logs \cup {"pageFailed"}
  /\ si' = si + 1
  /\ IF si + 2 <= Len(SyncEntries(syncData))
     THEN /\ spc' = "page"
          /\ sFetches' = {PageFetch(SyncEntries(syncData)[si + 2])}
          /\ fetchLog' = Append(SettleFetch(fetchLog, f.key, res, IF res = "ok" THEN body ELSE EmptyStr),
                                Started(PageFetch(SyncEntries(syncData)[si + 2])))
          /\ UNCHANGED <<server, exitCode>>
     ELSE /\ sFetches' = {}
          /\ fetchLog' = SettleFetch(fetchLog, f.key, res, IF res = "ok" THEN body ELSE EmptyStr)
          /\ AfterSync
  /\ UNCHANGED <<pageVars, args, sysenv, syncData>>

\* the child could not be spawned: its 'error' event (log, hint, reject) is
\* followed by its 'close' event with the negated errno (warning; resolve
\* has no effect after reject), and then main's catch runs
ServerError(code) ==
  /\ spc = "serve"
  /\ server.st = "failed"
  /\ code \in SpawnErrnos
  /\ server' = [server EXCEPT !.st = "error", !.code = code]
  /\ logs' = logs \cup {"startFailed", "installHint"}
                   \cup (IF code # 0 /\ code # NullCode
                         THEN {"serverExited"} ELSE {})
                   \cup {"execFailed"}
  /\ spc' = "exited"
  /\ exitCode' = 1
  /\ UNCHANGED <<pageVars, args, sysenv, disk, syncData, si, sFetches, fetchLog>>

\* SIGINT while the server step runs: the handler forwards it to the child
Sigint ==
  /\ spc = "serve"
  /\ server.st = "running"
  /\ ~server.sigint
  /\ server' = [server EXCEPT !.sigint = TRUE]
  /\ logs' = logs \cup {"closing"}
  /\ UNCHANGED <<pageVars, args, sysenv, spc, disk, syncData, si, sFetches,
                 fetchLog, exitCode>>

\* the exit codes the child can close with: the shell's "not found" status
\* when file_server is not installed, null when a signal ended it
CloseCodes ==
  (IF sysenv.binary THEN ServerCodes ELSE {NotFoundCode})
    \cup (IF server.sigint THEN {NullCode} ELSE {})

\* variant: the child's exit code becomes the script's exit code
ServerClose_propagate(code) ==
  /\ spc = "serve"
  /\ server.st = "running"
  /\ code \in CloseCodes
  /\ server' = [server EXCEPT !.st = "closed", !.code = code]
  /\ logs' = IF code # 0 /\ code # NullCode
             THEN logs \cup {"serverExited"} ELSE logs
  /\ spc' = "exited"
  /\ exitCode' = IF code = NullCode THEN 0 ELSE code
  /\ UNCHANGED <<pageVars, args, sysenv, disk, syncData, si, sFetches, fetchLog>>

\* the child's 'close' event: warn on a non-zero code, resolve; main ends
ServerClose(code) ==
  /\ spc = "serve"
  /\ server.st = "running"
  /\ code \in CloseCodes
  /\ server' = [server EXCEPT !.st = "closed", !.code = code]
  /\ logs' = IF code # 0 /\ code # NullCode
             THEN logs \cup {"serverExited"} ELSE logs
  /\ spc' = "exited"
  /\ exitCode' = 0
  /\ UNCHANGED <<pageVars, args, sysenv, disk, syncData, si, sFetches, fetchLog>>

SyncNext ==
  \/ MainStart
  \/ \E res \in ManifestResults, nd \in SyncManifests : ManifestDone(res, nd)
  \/ \E f \in sFetches : \E res \in {"ok", "notOk", "reject"} :
       \E body \in Bodies(f.uri) : PageDone(f, res, body)
  \/ \E code \in SpawnErrnos : ServerError(code)
  \/ Sigint
  \/ \E code \in ServerCodes \cup {NotFoundCode, NullCode} : ServerClose(code)

SyncSpec == SyncInit /\ [][SyncNext]_vars

TypeOK ==
  /\ hostname \in Hostnames
  /\ protocol \in Schemes
  /\ pc \in {"start", "awaitLocal", "awaitRemote", "done"}
  /\ activeId \in UrlIds \cup {NoId}
  /\ hidx \in DOMAIN history
  /\ nfetch \in 0..MaxLoads

(* ======================= properties ======================= *)

\* the navigation elements that carry the active marker
Marked == {i \in DOMAIN navEls : navEls[i].active}

\* a page load has just completed
LoadCompleted == lastOp.op \in {"fetchOk", "fetchFail"}

\* C1: in every reachable state activeId is null or a key of navData
C1_ActiveIdInNavData == activeId = NoId \/ activeId \in OwnKeys(navData)

\* a load started by a back navigation failed and left a manifest key active
C1_Witness ==
  /\ lastOp.op = "fetchFail"
  /\ lastOp.origin = "back"
  /\ activeId \in OwnKeys(navData)

\* C2: selecting the key that is already active starts no fetch, pushes no
\* history entry and leaves activeId, currentHtml, currentTitle and the
\* iframe content unchanged
C2_ReselectIsNoop ==
  [][(lastOp'.op = "click" /\ lastOp'.id = activeId)
       => UNCHANGED <<activeId, currentHtml, currentTitle, srcdoc, inflight,
                      nfetch, history, hidx>>]_vars

\* the active key was selected again while a page is cached
C2_Witness ==
  /\ lastOp.op = "click"
  /\ lastOp.id = activeId
  /\ currentHtml # EmptyStr

\* C3: a selection or a popstate event with an id that is not a key of the
\* manifest leaves activeId alone, starts no fetch and pushes no history entry
C3_UnknownKeyNoEffect ==
  [][(lastOp'.op \in {"click", "back", "forward"}
        /\ lastOp'.id \notin OwnKeys(navData))
       => UNCHANGED <<activeId, inflight, nfetch, history>>]_vars

\* a back navigation reached an entry whose id is no manifest key while a
\* manifest key was active
C3_Witness ==
  /\ lastOp.op = "back"
  /\ lastOp.id \in UrlIds \ OwnKeys(navData)
  /\ activeId # NoId

\* C4: when a page fetch fails the routine completes without throwing,
\* currentHtml and currentTitle are empty, the iframe shows the inline error
\* message, and activeId, the highlighting and the URL id are the key
C4_FailedLoad ==
  lastOp.op = "fetchFail" =>
    /\ ~lastOp.threw
    /\ currentHtml = EmptyStr
    /\ currentTitle = EmptyStr
    /\ srcdoc \in {ErrorDoc("HTTP"), ErrorDoc("network")}
    /\ activeId = lastOp.id
    /\ {navEls[i].id : i \in Marked} = {lastOp.id}
    /\ getIdFromUrl = lastOp.id

\* a load failed after an earlier load of another key had cached a page
C4_Witness ==
  /\ lastOp.op = "fetchFail"
  /\ Len(history) >= 3
  /\ history[hidx - 1].url \notin {NoId, lastOp.id}

\* C5: once a page load has completed exactly one navigation element
\* carries the active marker, and its data-id is activeId
C5_OneActiveMarker ==
  (LoadCompleted \/ activeId # NoId) =>
    /\ Cardinality(Marked) = 1
    /\ \A i \in Marked : navEls[i].id = activeId

\* the fetch started by init completed after a later one had completed
C5_Witness ==
  /\ lastOp.op = "fetchOk"
  /\ lastOp.origin = "init"
  /\ Len(history) >= 3
  /\ Len(navEls) >= 2

\* C6: at startup with a non-empty manifest the key loaded first is the
\* URL's id when it is a key of the manifest, else the manifest's first key
C6_InitialKey ==
  (lastOp.op = "init" /\ navData # <<>>) =>
    LET expected == IF getIdFromUrl \in OwnKeys(navData)
                    THEN getIdFromUrl ELSE ObjectKeys(navData)[1]
    IN /\ ~lastOp.threw
       /\ \E f \in inflight : f.id = expected

\* C7: with no page fetch in flight and activeId non-null, the URL's id
\* equals activeId, whatever history entry is current
C7_UrlMirrorsActive ==
  (inflight = {} /\ activeId # NoId) => getIdFromUrl = activeId

\* C8: after A and then B were loaded, the load started by a back
\* navigation to A's entry makes activeId equal A and keeps the forward
\* entry of B, so that a following forward navigation can reach B
C8_ForwardEntryKept ==
  [][(/\ lastOp'.op \in {"fetchOk", "fetchFail"}
      /\ lastOp'.origin = "back"
      /\ history[hidx].url = lastOp'.id
      /\ hidx < Len(history)
      /\ history[hidx + 1].url # lastOp'.id)
       => (/\ activeId' = lastOp'.id
           /\ hidx' < Len(history')
           /\ history'[hidx' + 1] = history[hidx + 1])]_vars

\* the remote manifest fetch failed
RemoteFailed ==
  /\ manifestLog # <<>>
  /\ manifestLog[Len(manifestLog)].src = "remote"
  /\ manifestLog[Len(manifestLog)].res \in {"notOk", "reject", "badJson"}

\* C9: when the remote manifest fetch fails the loader returns an empty
\* mapping without throwing; init renders an empty navigation, starts no
\* page fetch and leaves activeId null
C9_RemoteFailureEmpty ==
  RemoteFailed =>
    /\ pc = "done"
    /\ navData = <<>>
    /\ navEls = <<>>
    /\ nfetch = 0
    /\ inflight = {}
    /\ activeId = NoId
    /\ (lastOp.op = "init" => ~lastOp.threw)

\* the remote manifest was malformed JSON after the local attempt failed
C9_Witness ==
  /\ RemoteFailed
  /\ Len(manifestLog) = 2
  /\ manifestLog[2].res = "badJson"
  /\ lastOp.op = "init"

LocalHostnames == {"localhost", "127.0.0.1"}

\* C10: on localhost or 127.0.0.1 the local manifest is fetched first and
\* the remote one only after the local attempt failed; on any other
\* hostname only the remote one is fetched; at most one remote fetch
C10_LocalFirst ==
  /\ Cardinality({i \in DOMAIN manifestLog : manifestLog[i].src = "remote"}) <= 1
  /\ hostname \notin LocalHostnames =>
       \A i \in DOMAIN manifestLog : manifestLog[i].src = "remote"
  /\ hostname \in LocalHostnames =>
       /\ pc # "start" => manifestLog[1].src = "local"
       /\ \A i \in DOMAIN manifestLog :
            manifestLog[i].src = "remote" =>
              /\ i = 2
              /\ manifestLog[1].res \in {"notOk", "reject", "badJson"}

\* on 127.0.0.1 the local manifest failed to parse and the remote one loaded
C10_Witness ==
  /\ hostname = "127.0.0.1"
  /\ Len(manifestLog) = 2
  /\ manifestLog[1].res = "badJson"
  /\ manifestLog[2].res = "ok"

\* C11: rendering clears the container and produces exactly one element
\* per manifest key, in the manifest's insertion order, each with a data-id
\* equal to its key
C11_RenderInsertionOrder ==
  lastOp.op = "render" =>
    /\ Len(navEls) = Len(navData)
    /\ \A i \in DOMAIN navEls : navEls[i].id = navData[i].id

(* ---------------- properties of dev.mjs ---------------- *)

IsPageEntry(e) == e.kind = "page"
\* the page fetches started so far, in order
PageLog == SelectSeq(fetchLog, IsPageEntry)

\* the manifest fetch failed; it succeeded and its text was parsed
ManifestFailed ==
  \E i \in DOMAIN fetchLog :
    fetchLog[i].kind = "manifest" /\ fetchLog[i].res \in {"notOk", "reject"}
ManifestParsed ==
  \E i \in DOMAIN fetchLog :
    fetchLog[i].kind = "manifest" /\ fetchLog[i].res = "ok"

\* syncResources has returned
SyncFinished == ManifestParsed /\ spc \in {"serve", "exited"}

\* C12: a failed manifest fetch ends the run with exit code 1 before any
\* page is fetched or the server spawned; a failed page fetch never ends
\* the run, and a sync-only run whose pages all fail exits with code 0
C12_OnlyManifestFatal ==
  /\ ManifestFailed =>
       /\ spc = "exited"
       /\ exitCode = 1
       /\ PageLog = <<>>
       /\ server.st = "none"
  /\ (ManifestParsed /\ exitCode = 1) => server.st = "error"
  /\ (ManifestParsed /\ "--sync" \in args /\ spc = "exited") => exitCode = 0

\* a sync-only run ended with code 0 after both of its pages failed
C12_Witness ==
  /\ "--sync" \in args
  /\ spc = "exited"
  /\ exitCode = 0
  /\ Len(PageLog) = 2
  /\ \A i \in DOMAIN PageLog : PageLog[i].res \in {"notOk", "reject"}
  /\ disk.files = {}

\* C13: after a sync whose manifest was fetched and parsed the pages
\* directory exists and holds exactly <key>.html with the fetched body for
\* every key whose page fetch succeeded, whatever it held before
C13_PagesExact ==
  SyncFinished =>
    /\ disk.dir
    /\ disk.files = {<<FileName(PageLog[i].key), PageLog[i].body>> :
                       i \in {j \in DOMAIN PageLog : PageLog[j].res = "ok"}}

\* a directory with stale files was synced: one page written, one failed
C13_Witness ==
  /\ SyncFinished
  /\ sysenv.disk0.files # {}
  /\ Cardinality(disk.files) = 1
  /\ Len(PageLog) = 2

\* C14: the sync step runs if and only if --serve is absent, the server is
\* spawned only if --sync is absent; with --serve nothing is fetched or
\* written, and without a flag the sync is complete when the server is spawned
C14_FlagsSelectSteps ==
  /\ spc # "start" => (fetchLog # <<>> <=> "--serve" \notin args)
  /\ server.st # "none" => "--sync" \notin args
  /\ "--serve" \in args => (fetchLog = <<>> /\ disk = sysenv.disk0)
  /\ (server.st # "none" /\ "--serve" \notin args) =>
       /\ ManifestParsed
       /\ sFetches = {}
       /\ Len(PageLog) = Len(syncData)
       /\ \A i \in DOMAIN fetchLog : fetchLog[i].res # "pending"

\* without a flag the server runs after a sync of two pages
C14_Witness ==
  /\ args = {}
  /\ server.st = "running"
  /\ Len(PageLog) = 2

\* the run failed: manifest fetch or parse failure, or the child process
\* could not be spawned
UncaughtFailure ==
  \/ \E i \in DOMAIN fetchLog :
       fetchLog[i].kind = "manifest" /\ fetchLog[i].res # "ok"
  \/ server.st = "error"

\* C15 as claimed: exit code 1 on an uncaught failure, otherwise the exit
\* code of the server process
C15_ExitCodePropagated ==
  spc = "exited" =>
    /\ UncaughtFailure => exitCode = 1
    /\ (server.st = "closed" /\ server.code # NullCode) =>
         exitCode = server.code

\* C15 amended: exit code 1 on an uncaught failure, otherwise 0 whatever
\* code the server process exited with
C15_ExitCodeZeroUnlessFatal ==
  spc = "exited" => exitCode = IF UncaughtFailure THEN 1 ELSE 0

\* after a sync the server exited with code 2 and the script with code 0
C15_Witness ==
  /\ spc = "exited"
  /\ server.st = "closed"
  /\ server.code = 2
  /\ ManifestParsed
  /\ exitCode = 0

\* C16: with --sync-only the server is never spawned, with --serve-only
\* nothing is synced
C16_LongFlags ==
  /\ "--sync-only" \in args => server.st = "none"
  /\ "--serve-only" \in args => (fetchLog = <<>> /\ disk = sysenv.disk0)

\* C19: pages are fetched one at a time in the order of the manifest's
\* members; a fetch starts only after the previous one failed or its file
\* was written; every entry is attempted exactly once, failures or not
C19_Sequential ==
  /\ Cardinality(sFetches) <= 1
  /\ \A i \in DOMAIN fetchLog : fetchLog[i].res = "pending" => i = Len(fetchLog)
  /\ Len(PageLog) <= Len(syncData)
  /\ \A i \in DOMAIN PageLog : PageLog[i].key = syncData[i].id
  /\ \A i \in DOMAIN PageLog :
       PageLog[i].res = "ok" =>
         <<FileName(PageLog[i].key), PageLog[i].body>> \in disk.files
  /\ SyncFinished => Len(PageLog) = Len(syncData)

\* C20: once the server process has exited or failed to start the script
\* has terminated; an interrupt is forwarded to the server process; a
\* missing file_server binary leads to the warning that names file_server
C20_ServerStep ==
  /\ server.st \in {"closed", "error"} => spc = "exited"
  /\ "closing" \in logs => server.sigint
  /\ (~sysenv.binary /\ server.st \in {"closed", "error"}) =>
       "installHint" \in logs

(* ---------------- properties of the download and of racing loads ------- *)

\* C17: the download handler shows an alert and offers no file when
\* currentHtml is empty, and otherwise offers exactly currentHtml under the
\* name currentTitle, which a run keeps to its end; a cancelled save dialog
\* is not reported as an error, and no step of the handler changes the
\* application state
C17_DownloadOffersCache ==
  [][/\ downloads' # downloads =>
          UNCHANGED <<activeId, currentHtml, currentTitle, srcdoc, navEls,
                      history, hidx, inflight, nfetch, navData>>
     /\ Len(downloads') > Len(downloads) =>
          /\ Len(downloads') = Len(downloads) + 1
          /\ LET d == downloads'[Len(downloads')]
             IN IF currentHtml = EmptyStr
                THEN d.shown = "alert" /\ d.content = EmptyStr
                ELSE /\ d.shown \in {"picker", "anchor"}
                     /\ d.content = currentHtml
                     /\ d.name = currentTitle
     /\ \A i \in DOMAIN downloads :
          /\ downloads'[i].shown = downloads[i].shown
          /\ downloads'[i].content = downloads[i].content
          /\ downloads'[i].name = downloads[i].name
     /\ \A i \in DOMAIN downloads' :
          downloads'[i].result = "aborted" => ~downloads'[i].logged]_vars

\* the save dialog of a cached page was cancelled after the page of another
\* key had replaced the cache
C17_Witness ==
  /\ lastOp.op = "download"
  /\ \E i \in DOMAIN downloads :
       /\ downloads[i].result = "aborted"
       /\ downloads[i].content # EmptyStr
       /\ downloads[i].content # currentHtml
       /\ currentHtml # EmptyStr

\* C18: no in-flight page fetch is cancelled, and the iframe content,
\* currentHtml, activeId, highlighting and URL id are those of the fetch
\* that completed last, also when it was started first
C18_LastWriteWins ==
  [][/\ \A f \in inflight :
          \/ f \in inflight'
          \/ /\ LoadCompleted'
             /\ lastOp'.id = f.id
             /\ lastOp'.origin = f.origin
             /\ inflight' = inflight \ {f}
     /\ LoadCompleted' =>
          /\ activeId' = lastOp'.id
          /\ {navEls'[i].id : i \in Marked'} = {lastOp'.id}
          /\ getIdFromUrl' = lastOp'.id
          /\ lastOp'.op = "fetchOk" =>
               /\ currentHtml' = srcdoc'
               /\ srcdoc' \in Bodies(resolveUri(Lookup(navData, lastOp'.id).uri))
               /\ currentTitle' = TitleOf(lastOp'.id)
          /\ lastOp'.op = "fetchFail" =>
               /\ currentHtml' = EmptyStr
               /\ srcdoc' \in {ErrorDoc("HTTP"), ErrorDoc("network")}]_vars

\* the fetch started by init completed after the fetch of another key that
\* was selected later, and its page is the one shown
C18_Witness ==
  /\ lastOp.op = "fetchOk"
  /\ lastOp.origin = "init"
  /\ hidx >= 3
  /\ history[hidx - 1].state \notin {NoId, lastOp.id}
  /\ activeId = lastOp.id
  /\ currentHtml = <<"html", lastOp.id>>
  /\ inflight = {}

\* C21: the cached download content always belongs to the active key: either
\* currentHtml and currentTitle are both empty, or currentTitle is
\* <activeId>.html and currentHtml is a body returned by a fetch of the
\* active key's uri, whatever the order in which page fetches resolve
C21_CacheBelongsToActive ==
  \/ currentHtml = EmptyStr /\ currentTitle = EmptyStr
  \/ /\ activeId # NoId
     /\ currentTitle = TitleOf(activeId)
     /\ currentHtml \in Bodies(resolveUri(Lookup(navData, activeId).uri))

\* the second page fetch resolved while the first one is still in flight for
\* another key, and the cache holds the page of the second
C21_Witness ==
  /\ lastOp.op = "fetchOk"
  /\ nfetch = 2
  /\ \E g \in inflight : g.n = 1 /\ g.id # lastOp.id
  /\ activeId = lastOp.id
  /\ currentTitle = TitleOf(lastOp.id)
  /\ currentHtml = <<"html", lastOp.id>>

\* C22: when the manifest fetch of the sync script fails, the local disk is
\* as it was before the run: nav_data.json is not written and the pages
\* directory is neither deleted nor recreated
C22_FailedFetchLeavesDisk ==
  ManifestFailed => disk = sysenv.disk0

\* the manifest fetch failed and the script ended over a disk that holds the
\* manifest and the pages of an earlier sync
C22_Witness ==
  /\ ManifestFailed
  /\ spc = "exited"
  /\ sysenv.disk0.navData # NoFile
  /\ sysenv.disk0.dir
  /\ sysenv.disk0.files # {}
  /\ disk = sysenv.disk0

====
